---- MODULE Spec2Model ----
(***************************************************************************)
(* Model of the prompt library: the prompts and test_cases tables of       *)
(* src/db_operations.py and the browse and create pages that drive them    *)
(* (src/pages/browse_page.py, src/pages/create_page.py).                   *)
(*                                                                         *)
(* One browser session is modelled.  Every action is one Streamlit script  *)
(* run: the page is rendered top to bottom and the handler of the one      *)
(* button that was clicked is executed.                                    *)
(***************************************************************************)
EXTENDS Integers, Sequences, FiniteSets, TLC

----------------------------------------------------------------------------
(* Bounds of the model *)

\* ids the prompts table may allocate
MaxPrompts == 3
\* upvotes the table may hold when one more is given
MaxUpvotes == 1
\* ids the test_cases table may allocate, and length of the session's list
MaxTestCases == 1

----------------------------------------------------------------------------
(* Values *)

\* SQL NULL and Python None for ids, versions and parent ids.  Like None,
\* it is falsy in `x if x else y`; AUTOINCREMENT ids start at 1.
NULL == 0

\* what the user can type into the create page's text inputs
Names == {"n1"}
Authors == {"a1"}
\* A template is held as the sequence of its lexemes.  The three the create
\* page's user can type: one without variables, one with the variable x, a
\* malformed one ("{{x" without the closing braces).
Templates == {<<"hello">>, <<"{{", "x", "}}">>, <<"{{", "x">>}
\* what the user can type as the value of a template variable
Values == {"", "v"}
\* what the user can type as a test case's expected output
ExpectedOutputs == {"o"}

----------------------------------------------------------------------------
(* src/utils.py: get_template_variables.  jinja2.Environment().parse is    *)
(* modelled for templates made of text, {{ expr }} with expr a name, a     *)
(* literal or an attribute access, and {% for name in expr %} ... {% endfor *)
(* %}; every other sequence of lexemes is a TemplateSyntaxError.            *)

Delimiters == {"{{", "}}", "{%", "%}", "."}
Literals == {"'s'"}
\* inside a block every other lexeme is a name token
IsName(tok) == tok \notin Delimiters \cup Literals

\* a node of the syntax tree; children is what iter_child_nodes yields
Node(type, name, ctx, children) ==
    [type |-> type, name |-> name, ctx |-> ctx, children |-> children]

TemplateSyntaxError == [ok |-> FALSE]

\* parse_primary: a name (context load) or a constant
parse_primary(toks, i) ==
    IF i > Len(toks) THEN TemplateSyntaxError
    ELSE IF toks[i] \in Literals
         THEN [ok |-> TRUE, node |-> Node("Const", toks[i], "", <<>>), next |-> i + 1]
    ELSE IF IsName(toks[i])
         THEN [ok |-> TRUE, node |-> Node("Name", toks[i], "load", <<>>), next |-> i + 1]
    ELSE TemplateSyntaxError

\* parse_postfix: node.attr, the attribute being a string of the Getattr
\* node, not a child node
RECURSIVE parse_postfix(_, _, _)
parse_postfix(toks, node, i) ==
    IF i <= Len(toks) /\ toks[i] = "."
    THEN IF i + 1 <= Len(toks) /\ IsName(toks[i + 1])
         THEN parse_postfix(toks, Node("Getattr", toks[i + 1], "load", <<node>>), i + 2)
         ELSE TemplateSyntaxError
    ELSE [ok |-> TRUE, node |-> node, next |-> i]

parse_expression(toks, i) ==
    LET primary == parse_primary(toks, i)
    IN  IF primary.ok THEN parse_postfix(toks, primary.node, primary.next)
        ELSE TemplateSyntaxError

\* the Output node the data buffer is flushed into
flush_data(body, data_buffer) ==
    IF data_buffer = <<>> THEN body
    ELSE Append(body, Node("Output", "", "", data_buffer))

\* subparse: the nodes from lexeme i up to the end of the template or, in a
\* block, up to the {% of one of its end_tokens.  parse_for is the branch
\* of the for statement: target (context store), "in", iter, the body up to
\* endfor.
RECURSIVE subparse(_, _, _, _, _)
subparse(toks, i, end_tokens, body, data_buffer) ==
    IF i > Len(toks)
    THEN IF end_tokens = {}
         THEN [ok |-> TRUE, nodes |-> flush_data(body, data_buffer), next |-> i]
         ELSE TemplateSyntaxError
    ELSE IF toks[i] = "{{"
    THEN LET e == parse_expression(toks, i + 1)
         IN  IF e.ok /\ e.next <= Len(toks) /\ toks[e.next] = "}}"
             THEN subparse(toks, e.next + 1, end_tokens, body,
                           Append(data_buffer, e.node))
             ELSE TemplateSyntaxError
    ELSE IF toks[i] = "{%"
    THEN IF i + 1 > Len(toks) THEN TemplateSyntaxError
         ELSE IF toks[i + 1] \in end_tokens
         THEN [ok |-> TRUE, nodes |-> flush_data(body, data_buffer), next |-> i]
         ELSE IF toks[i + 1] = "for"
         THEN LET target == parse_primary(toks, i + 2)
                  iter == IF target.ok /\ target.node.type = "Name"
                             /\ target.next <= Len(toks) /\ toks[target.next] = "in"
                          THEN parse_expression(toks, target.next + 1)
                          ELSE TemplateSyntaxError
                  for_body == IF iter.ok /\ iter.next <= Len(toks)
                                 /\ toks[iter.next] = "%}"
                              THEN subparse(toks, iter.next + 1, {"endfor"}, <<>>, <<>>)
                              ELSE TemplateSyntaxError
              IN  IF for_body.ok /\ for_body.next + 2 <= Len(toks)
                     /\ toks[for_body.next + 2] = "%}"
                  THEN subparse(toks, for_body.next + 3, end_tokens,
                         Append(flush_data(body, data_buffer),
                                Node("For", "", "",
                                     <<[target.node EXCEPT !.ctx = "store"],
                                       iter.node>> \o for_body.nodes)),
                         <<>>)
                  ELSE TemplateSyntaxError
         ELSE TemplateSyntaxError
    ELSE subparse(toks, i + 1, end_tokens, body,
                  Append(data_buffer, Node("TemplateData", toks[i], "", <<>>)))

\* env.parse(template_str): the Template node, or TemplateSyntaxError
parse(template_str) ==
    LET result == subparse(template_str, 1, {}, <<>>, <<>>)
    IN  IF result.ok
        THEN [ok |-> TRUE, node |-> Node("Template", "", "", result.nodes)]
        ELSE TemplateSyntaxError

\* whether env.parse returns; it raises TemplateSyntaxError otherwise
TemplateSyntaxOK(template_str) == parse(template_str).ok

\* visit_node: the names of the Name nodes of the tree under node
RECURSIVE visit_node(_)
visit_node(node) ==
    (IF node.type = "Name" THEN {node.name} ELSE {})
        \cup UNION {visit_node(node.children[k]) : k \in DOMAIN node.children}

\* get_template_variables of a template that parses (the callers below
\* test TemplateSyntaxOK first: on a malformed template the call raises)
get_template_variables(template_str) ==
    LET ast == parse(template_str)
    IN  IF ast.ok THEN visit_node(ast.node) ELSE {}

\* A JSON object of strings, as json.dumps writes it and json.loads reads
\* it back, is held as the mapping itself.
ValueMaps(template_str) == [get_template_variables(template_str) -> Values]

AllValueMaps == UNION {ValueMaps(t) : t \in {t \in Templates : TemplateSyntaxOK(t)}}

\* Python's None as the value of a key of a value mapping (a JSON null)
NoneValue == "None"

\* validate_variables_with_template that only looks for the keys, not at
\* the values
validate_variables_keys_only(values, template_str) ==
    LET bad == {v \in get_template_variables(template_str) : v \notin DOMAIN values}
    IN  IF bad = {} THEN {[is_valid |-> TRUE, missing |-> ""]}
        ELSE {[is_valid |-> FALSE, missing |-> v] : v \in bad}

\* validate_variables_with_template: the (is_valid, missing) it may return.
\* The loop runs over list(set) of the variables, whose order is not fixed,
\* and returns at the first variable that is no key or has the value '' or
\* None: any such variable may be the one returned.
validate_variables_with_template(values, template_str) ==
    LET bad == {v \in get_template_variables(template_str) :
                    \/ v \notin DOMAIN values
                    \/ values[v] = ""
                    \/ values[v] = NoneValue}
    IN  IF bad = {} THEN {[is_valid |-> TRUE, missing |-> ""]}
        ELSE {[is_valid |-> FALSE, missing |-> v] : v \in bad}

----------------------------------------------------------------------------
(* The Prompt and TestCase dataclasses *)

Prompt(id, name, author, template, example_values, upvotes, version, parent_id) ==
    [id |-> id, name |-> name, author |-> author, template |-> template,
     example_values |-> example_values, upvotes |-> upvotes,
     version |-> version, parent_id |-> parent_id]

\* Prompt.__eq__: every field but id and upvotes
Prompt__eq__(self, other) ==
    /\ self.name = other.name
    /\ self.author = other.author
    /\ self.template = other.template
    /\ self.example_values = other.example_values
    /\ self.version = other.version
    /\ self.parent_id = other.parent_id

TestCase(id, prompt_id, input_values, expected_output) ==
    [id |-> id, prompt_id |-> prompt_id, input_values |-> input_values,
     expected_output |-> expected_output]

\* st.session_state.editing_prompt when no prompt is being edited
None == [id |-> NULL]

----------------------------------------------------------------------------
(* State *)

VARIABLES
    prompts,              \* the prompts table: id -> row (a Prompt)
    prompt_seq,           \* its AUTOINCREMENT counter: the largest id given out
    test_cases,           \* the test_cases table: id -> row (a TestCase)
    test_case_seq,        \* its AUTOINCREMENT counter
    editing_prompt,       \* st.session_state.editing_prompt
    ss_test_cases,        \* st.session_state.test_cases
    delete_confirmation,  \* st.session_state.delete_confirmation
    created,              \* history: id -> [root, version] of every row ever inserted
    validator,            \* a call of validate_variables_with_template: its frame
    dispatcher,           \* a call of test_multiple_models: its frame and its tasks
    judge,                \* a call of compare_strings_with_llm_judge: its frame
    design                \* a run of the design page: its session state and position

\* the frames of the functions of src/utils.py and the design page's run
utils_vars == <<validator, dispatcher, judge, design>>

vars == <<prompts, prompt_seq, test_cases, test_case_seq, editing_prompt,
          ss_test_cases, delete_confirmation, created, utils_vars>>

store_vars == <<prompts, prompt_seq, test_cases, test_case_seq, editing_prompt,
                ss_test_cases, delete_confirmation, created>>

\* no call of the function, no run of the page, is in progress
Idle == [pc |-> "idle"]

----------------------------------------------------------------------------
(* src/db_operations.py.  Each function opens its own connection; none but *)
(* init_db issues PRAGMA foreign_keys = ON, and SQLite enforces foreign     *)
(* keys only on a connection that has issued it, so no statement below is   *)
(* rejected or cascaded by a foreign key.                                   *)

Max(S) == CHOOSE x \in S : \A y \in S : y <= x

\* ORDER BY key DESC over the rows ids: every order SQLite may return
\* (rows with equal keys come in either order)
RECURSIVE OrderByDesc(_, _)
OrderByDesc(ids, key) ==
    IF ids = {} THEN {<<>>}
    ELSE UNION {{<<x>> \o s : s \in OrderByDesc(ids \ {x}, key)} :
                    x \in {x \in ids : \A y \in ids : key[y] <= key[x]}}

\* INSERT INTO prompts ...; returns the tables and c.lastrowid
save_prompt(P, seq, prompt) ==
    LET prompt_id == seq + 1
    IN  [prompts |-> P @@ (prompt_id :> [prompt EXCEPT !.id = prompt_id]),
         seq |-> prompt_id,
         id |-> prompt_id]

\* update_prompt as an edit in place: UPDATE prompts SET ... WHERE id =
\* prompt.parent_id overwrites the base row instead of inserting a version
update_prompt_in_place(P, seq, prompt) ==
    [prompts |-> [i \in DOMAIN P |->
                    IF i = prompt.parent_id
                    THEN [P[i] EXCEPT !.name = prompt.name,
                                      !.author = prompt.author,
                                      !.template = prompt.template,
                                      !.example_values = prompt.example_values,
                                      !.version = @ + 1]
                    ELSE P[i]],
     seq |-> seq,
     id |-> prompt.parent_id]

\* SELECT MAX(version) FROM prompts WHERE id = prompt.parent_id, `or 1`,
\* then INSERT with version latest_version + 1 and parent_id prompt.parent_id
update_prompt(P, seq, prompt) ==
    LET selected == {P[i].version : i \in {i \in DOMAIN P : i = prompt.parent_id}}
        fetched == IF selected = {} THEN NULL ELSE Max(selected)
        latest_version == IF fetched = NULL THEN 1 ELSE fetched
        prompt_id == seq + 1
    IN  [prompts |-> P @@ (prompt_id :>
                        [prompt EXCEPT !.id = prompt_id,
                                       !.version = latest_version + 1]),
         seq |-> prompt_id,
         id |-> prompt_id]

\* upvote_prompt with the WHERE clause widened to the versions made from
\* the row: UPDATE ... WHERE id = ? OR parent_id = ?
upvote_prompt_family(P, prompt_id) ==
    [i \in DOMAIN P |->
        IF i = prompt_id \/ P[i].parent_id = prompt_id
        THEN [P[i] EXCEPT !.upvotes = @ + 1] ELSE P[i]]

\* UPDATE prompts SET upvotes = upvotes + 1 WHERE id = ?
upvote_prompt(P, prompt_id) ==
    [i \in DOMAIN P |->
        IF i = prompt_id THEN [P[i] EXCEPT !.upvotes = @ + 1] ELSE P[i]]

\* DELETE FROM prompts WHERE id = ?  (rows of either table that refer to
\* the deleted id stay as they are)
delete_prompt(P, prompt_id) ==
    [i \in DOMAIN P \ {prompt_id} |-> P[i]]

\* the WHERE clause of get_prompt_versions
prompt_versions_ids(P, prompt_id) ==
    LET own == {j \in DOMAIN P : j = prompt_id \/ P[j].parent_id = prompt_id}
    IN  {i \in DOMAIN P :
            \/ i = prompt_id
            \/ P[i].parent_id = prompt_id
            \/ i \in {P[j].parent_id : j \in own}}

\* get_prompt_versions: the lists it may return (ORDER BY version DESC)
get_prompt_versions(P, prompt_id) ==
    {[k \in DOMAIN s |-> P[s[k]]] :
        s \in OrderByDesc(prompt_versions_ids(P, prompt_id),
                          [i \in DOMAIN P |-> P[i].version])}

\* WITH RECURSIVE PromptHierarchy, joined to the row with id i (prompts p
\* LEFT JOIN PromptHierarchy ph ON p.id = ph.id): the anchor gives a row
\* without parent (id, id, 1, level 1), the recursive part gives a row whose
\* parent has a PromptHierarchy row that row's root_id and its level + 1, and
\* a row with neither joins NULLs.  A parent was inserted before its child,
\* so a parent id is smaller than the id of its child.
RECURSIVE PromptHierarchy(_, _)
PromptHierarchy(P, i) ==
    LET no_row == [id |-> NULL, root_id |-> NULL, level |-> NULL]
    IN  IF P[i].parent_id = NULL
        THEN [id |-> i, root_id |-> i, level |-> 1]
        ELSE IF P[i].parent_id \in DOMAIN P
             THEN LET ph == PromptHierarchy(P, P[i].parent_id)
                  IN  IF ph.id = NULL THEN no_row
                      ELSE [id |-> i, root_id |-> ph.root_id, level |-> ph.level + 1]
             ELSE no_row

\* the rows of LatestVersions before rn is counted: id and version of p,
\* root_id and level of ph
JoinedHierarchy(P) ==
    {[id |-> i, version |-> P[i].version,
      root_id |-> PromptHierarchy(P, i).root_id,
      level |-> PromptHierarchy(P, i).level] : i \in DOMAIN P}

\* LatestVersions: the ids of the rows that may get rn = 1 in their partition
\* (PARTITION BY ph.root_id ORDER BY ph.level DESC, p.version DESC)
FirstInPartition(P) ==
    LET joined == JoinedHierarchy(P)
    IN  {r.id : r \in {r \in joined :
            \A q \in joined :
                q.root_id = r.root_id =>
                    \/ q.level < r.level
                    \/ q.level = r.level /\ q.version <= r.version}}

\* the sets of rows WHERE rn = 1 may keep: one first row of each partition
LatestVersionsIds(P) ==
    LET first == FirstInPartition(P)
        root_id == [i \in first |-> PromptHierarchy(P, i).root_id]
    IN  {S \in SUBSET first :
            \A i \in first : Cardinality({j \in S : root_id[j] = root_id[i]}) = 1}

\* get_latest_versions: the lists it may return (ORDER BY upvotes DESC)
get_latest_versions(P) ==
    UNION {{[k \in DOMAIN s |-> P[s[k]]] :
                s \in OrderByDesc(S, [i \in DOMAIN P |-> P[i].upvotes])} :
            S \in LatestVersionsIds(P)}

\* INSERT INTO test_cases ...
save_test_case(T, seq, test_case) ==
    LET test_case_id == seq + 1
    IN  [test_cases |-> T @@ (test_case_id :> [test_case EXCEPT !.id = test_case_id]),
         seq |-> test_case_id,
         id |-> test_case_id]

\* the rows ids in rowid order, as a table scan returns them
RECURSIVE InRowidOrder(_, _)
InRowidOrder(T, ids) ==
    IF ids = {} THEN <<>>
    ELSE LET i == CHOOSE i \in ids : \A j \in ids : i <= j
         IN  <<T[i]>> \o InRowidOrder(T, ids \ {i})

\* SELECT * FROM test_cases WHERE prompt_id = ?
get_test_cases(T, prompt_parent_id) ==
    InRowidOrder(T, {i \in DOMAIN T : T[i].prompt_id = prompt_parent_id})

\* DELETE FROM test_cases WHERE id = ?
delete_test_case(T, test_case_id) ==
    [i \in DOMAIN T \ {test_case_id} |-> T[i]]

\* UPDATE test_cases SET input_values = ?, expected_output = ? WHERE id = ?
update_test_case(T, test_case) ==
    [i \in DOMAIN T |->
        IF i = test_case.id
        THEN [T[i] EXCEPT !.input_values = test_case.input_values,
                          !.expected_output = test_case.expected_output]
        ELSE T[i]]

----------------------------------------------------------------------------
(* src/pages/create_page.py *)

\* _create_section, "Load existing test cases if editing": the session's
\* list after the page has been rendered
LoadTestCases(T, editing, tcs) ==
    IF editing # None /\ tcs = <<>>
    THEN LET p_id == IF editing.parent_id # NULL THEN editing.parent_id
                     ELSE editing.id
         IN  get_test_cases(T, p_id)
    ELSE tcs

\* the test cases the test page shows for selected_prompt, the create page
\* for editing_prompt: get_test_cases(parent_id if parent_id else id)
lookup_test_cases(T, prompt) ==
    get_test_cases(T, IF prompt.parent_id # NULL THEN prompt.parent_id ELSE prompt.id)

\* _save_or_update_prompt: the tables and the Prompt it returns
save_or_update_prompt(P, seq, editing, name, author, template, values) ==
    LET prompt == Prompt(NULL, name, author, template, values,
                         IF editing # None THEN editing.upvotes ELSE 0,
                         IF editing = None THEN 1 ELSE NULL,
                         IF editing = None THEN NULL ELSE editing.id)
    IN  IF editing # None
        THEN IF ~Prompt__eq__(prompt, editing)
             THEN LET r == update_prompt(P, seq, prompt)
                  IN  [prompts |-> r.prompts, seq |-> r.seq,
                       prompt |-> [prompt EXCEPT !.id = r.id]]
             ELSE [prompts |-> P, seq |-> seq, prompt |-> prompt]
        ELSE LET r == save_prompt(P, seq, prompt)
             IN  [prompts |-> r.prompts, seq |-> r.seq,
                  prompt |-> [prompt EXCEPT !.id = r.id]]

\* _save_or_update_test_cases, from the idx-th test case of the session's
\* list on; widgets[idx] holds the texts of test_inputs_idx and expected_idx
RECURSIVE save_or_update_test_cases(_, _, _, _, _, _)
save_or_update_test_cases(T, seq, tcs, prompt, widgets, idx) ==
    IF idx > Len(tcs) THEN [test_cases |-> T, seq |-> seq]
    ELSE LET test_case ==
                 [tcs[idx] EXCEPT
                    !.prompt_id = IF prompt.parent_id # NULL THEN prompt.parent_id
                                  ELSE prompt.id,
                    !.expected_output = widgets[idx].expected_output,
                    !.input_values = widgets[idx].input_values]
         IN  IF test_case.id # NULL
             THEN save_or_update_test_cases(update_test_case(T, test_case), seq,
                                            tcs, prompt, widgets, idx + 1)
             ELSE LET r == save_test_case(T, seq, test_case)
                  IN  save_or_update_test_cases(r.test_cases, r.seq,
                                                tcs, prompt, widgets, idx + 1)

\* the texts the user may leave in the widgets test_inputs_idx and
\* expected_idx of one test case: the JSON object {} and an expected output
WidgetTexts == [input_values : {<<>>}, expected_output : ExpectedOutputs]

----------------------------------------------------------------------------
(* Initial state: init_db has created the two empty tables, the session    *)
(* state is empty.                                                         *)

InitStore ==
    /\ prompts = <<>>
    /\ prompt_seq = 0
    /\ test_cases = <<>>
    /\ test_case_seq = 0
    /\ editing_prompt = None
    /\ ss_test_cases = <<>>
    /\ delete_confirmation = NULL
    /\ created = <<>>

Init ==
    /\ InitStore
    /\ validator = Idle
    /\ dispatcher = Idle
    /\ judge = Idle
    /\ design = Idle

----------------------------------------------------------------------------
(* src/pages/browse_page.py: show_browse_page *)

\* the ids of the rows that can be selected_prompt in a run of the page: a
\* version, picked in the selectbox, of a prompt that get_latest_versions
\* returned (a row is in some list get_latest_versions may return exactly
\* if it may get rn = 1 in its partition)
SelectablePrompts(P) ==
    UNION {prompt_versions_ids(P, p) : p \in FirstInPartition(P)}

\* the upvotes held by the rows ids of the table
RECURSIVE TotalUpvotes(_, _)
TotalUpvotes(P, ids) ==
    IF ids = {} THEN 0
    ELSE LET i == CHOOSE i \in ids : TRUE
         IN  P[i].upvotes + TotalUpvotes(P, ids \ {i})

\* "Upvote" of the selected version
Upvote(id) ==
    /\ TotalUpvotes(prompts, DOMAIN prompts) < MaxUpvotes
    /\ prompts' = upvote_prompt(prompts, id)
    /\ UNCHANGED <<prompt_seq, test_cases, test_case_seq, editing_prompt,
                   ss_test_cases, delete_confirmation, created>>
    /\ UNCHANGED utils_vars

\* "Edit": editing_prompt is the selected row as the page has just read it;
\* switch_page runs the create page, which loads the test cases
Edit(id) ==
    LET selected_prompt == prompts[id]
    IN  /\ editing_prompt' = selected_prompt
        /\ ss_test_cases' = LoadTestCases(test_cases, selected_prompt, ss_test_cases)
        /\ UNCHANGED <<prompts, prompt_seq, test_cases, test_case_seq,
                       delete_confirmation, created>>
    /\ UNCHANGED utils_vars

\* "Delete"
Delete(id) ==
    /\ delete_confirmation # id
    /\ delete_confirmation' = id
    /\ UNCHANGED <<prompts, prompt_seq, test_cases, test_case_seq,
                   editing_prompt, ss_test_cases, created>>
    /\ UNCHANGED utils_vars

\* a "Confirm Delete" button shown without the test of delete_confirmation
ConfirmDeleteUnasked(id) ==
    /\ prompts' = delete_prompt(prompts, id)
    /\ delete_confirmation' = NULL
    /\ UNCHANGED <<prompt_seq, test_cases, test_case_seq, editing_prompt,
                   ss_test_cases, created>>
    /\ UNCHANGED utils_vars

\* "Confirm Delete"
ConfirmDelete(id) ==
    /\ delete_confirmation = id
    /\ prompts' = delete_prompt(prompts, id)
    /\ delete_confirmation' = NULL
    /\ UNCHANGED <<prompt_seq, test_cases, test_case_seq, editing_prompt,
                   ss_test_cases, created>>
    /\ UNCHANGED utils_vars

\* "Cancel"
CancelDelete(id) ==
    /\ delete_confirmation = id
    /\ delete_confirmation' = NULL
    /\ UNCHANGED <<prompts, prompt_seq, test_cases, test_case_seq,
                   editing_prompt, ss_test_cases, created>>
    /\ UNCHANGED utils_vars

-----
(* src/pages/create_page.py: _create_section.  template is the text of the *)
(* template area and values the texts of the inputs of its variables; a    *)
(* malformed template makes get_template_variables raise before any       *)
(* button of the page is reached.                                          *)

\* "Add Test Case"
AddTestCase(template, values) ==
    /\ TemplateSyntaxOK(template)
    /\ LET tcs == LoadTestCases(test_cases, editing_prompt, ss_test_cases)
           test_case == TestCase(NULL,
                                 IF editing_prompt # None THEN editing_prompt.id
                                 ELSE NULL,
                                 values, "")
       IN  /\ Len(tcs) < MaxTestCases
           /\ ss_test_cases' = Append(tcs, test_case)
    /\ UNCHANGED <<prompts, prompt_seq, test_cases, test_case_seq,
                   editing_prompt, delete_confirmation, created>>
    /\ UNCHANGED utils_vars

\* "Delete Test Case" of the i-th test case shown, then st.rerun
DeleteTestCase(template, i) ==
    /\ TemplateSyntaxOK(template)
    /\ LET tcs == LoadTestCases(test_cases, editing_prompt, ss_test_cases)
       IN  /\ i \in DOMAIN tcs
           /\ test_cases' = IF tcs[i].id # NULL
                            THEN delete_test_case(test_cases, tcs[i].id)
                            ELSE test_cases
           /\ ss_test_cases' =
                LoadTestCases(test_cases', editing_prompt,
                              SubSeq(tcs, 1, i - 1) \o SubSeq(tcs, i + 1, Len(tcs)))
    /\ UNCHANGED <<prompts, prompt_seq, test_case_seq, editing_prompt,
                   delete_confirmation, created>>
    /\ UNCHANGED utils_vars

\* a _save_prompt_and_test that saves before it looks at the result of the
\* validation
save_prompt_then_validate(name, author, template, values, widgets, v) ==
    LET tcs == LoadTestCases(test_cases, editing_prompt, ss_test_cases)
        p == save_or_update_prompt(prompts, prompt_seq,
                                   editing_prompt, name, author, template, values)
        t == save_or_update_test_cases(test_cases, test_case_seq,
                                       tcs, p.prompt, widgets, 1)
    IN  /\ DOMAIN widgets = DOMAIN tcs
        /\ p.seq <= MaxPrompts
        /\ t.seq <= MaxTestCases
        /\ prompts' = p.prompts
        /\ prompt_seq' = p.seq
        /\ test_cases' = t.test_cases
        /\ test_case_seq' = t.seq
        /\ ss_test_cases' = IF v.is_valid THEN <<>> ELSE tcs
        /\ editing_prompt' = IF v.is_valid THEN None ELSE editing_prompt
        /\ created' =
             IF p.seq = prompt_seq THEN created
             ELSE created @@ (p.seq :>
                    [root |-> IF editing_prompt = None THEN p.seq
                              ELSE created[editing_prompt.id].root,
                     version |-> p.prompts[p.seq].version])

\* _save_prompt_and_test after the call of validate_variables_with_template
\* has returned v = (is_valid, missing)
save_prompt_and_test(name, author, template, values, widgets, v) ==
    LET tcs == LoadTestCases(test_cases, editing_prompt, ss_test_cases)
    IN  /\ DOMAIN widgets = DOMAIN tcs
        /\ IF ~v.is_valid
           THEN /\ ss_test_cases' = tcs
                /\ UNCHANGED <<prompts, prompt_seq, test_cases, test_case_seq,
                               editing_prompt, created>>
           ELSE LET p == save_or_update_prompt(prompts, prompt_seq,
                               editing_prompt, name, author, template, values)
                    t == save_or_update_test_cases(test_cases, test_case_seq,
                               tcs, p.prompt, widgets, 1)
                IN  /\ p.seq <= MaxPrompts
                    /\ t.seq <= MaxTestCases
                    /\ prompts' = p.prompts
                    /\ prompt_seq' = p.seq
                    /\ test_cases' = t.test_cases
                    /\ test_case_seq' = t.seq
                    /\ ss_test_cases' = <<>>
                    /\ editing_prompt' = None
                    /\ created' =
                         IF p.seq = prompt_seq THEN created
                         ELSE created @@ (p.seq :>
                                [root |-> IF editing_prompt = None THEN p.seq
                                          ELSE created[editing_prompt.id].root,
                                 version |-> p.prompts[p.seq].version])

\* "Save Prompt": _save_prompt_and_test
SavePrompt(name, author, template, values, widgets) ==
    /\ TemplateSyntaxOK(template)
    /\ \E v \in validate_variables_with_template(values, template) :
          save_prompt_and_test(name, author, template, values, widgets, v)
    /\ UNCHANGED delete_confirmation
    /\ UNCHANGED utils_vars

\* A run of the create page up to "Save Prompt", with the frame of its call
\* of validate_variables_with_template kept in validator.  On a malformed
\* template get_template_variables raises in _create_section, before the
\* button, and the run ends there.
SavePromptValidated(name, author, template, values, widgets) ==
    /\ IF ~TemplateSyntaxOK(template)
       THEN /\ validator' = [pc |-> "raised", values |-> values,
                             template_str |-> template, template_vars |-> {},
                             ret |-> "TemplateSyntaxError"]
            /\ UNCHANGED store_vars
       ELSE /\ \E v \in validate_variables_with_template(values, template) :
                 /\ save_prompt_and_test(name, author, template, values, widgets, v)
                 /\ validator' = [pc |-> "returned", values |-> values,
                                  template_str |-> template,
                                  template_vars |-> get_template_variables(template),
                                  ret |-> v]
            /\ UNCHANGED delete_confirmation
    /\ UNCHANGED <<dispatcher, judge, design>>

----------------------------------------------------------------------------

Next ==
    \/ \E id \in SelectablePrompts(prompts) : Upvote(id)
    \/ \E id \in SelectablePrompts(prompts) : Edit(id)
    \/ \E id \in SelectablePrompts(prompts) : Delete(id)
    \/ \E id \in SelectablePrompts(prompts) : ConfirmDelete(id)
    \/ \E id \in SelectablePrompts(prompts) : CancelDelete(id)
    \/ \E template \in Templates, values \in AllValueMaps :
          /\ values \in ValueMaps(template)
          /\ AddTestCase(template, values)
    \/ \E template \in Templates, i \in 1..MaxTestCases : DeleteTestCase(template, i)
    \/ \E template \in Templates, name \in Names, author \in Authors,
          values \in AllValueMaps,
          widgets \in UNION {[1..n -> WidgetTexts] : n \in 0..MaxTestCases} :
          /\ values \in ValueMaps(template)
          /\ SavePrompt(name, author, template, values, widgets)

Spec == Init /\ [][Next]_vars

\* The sessions in which no test case button is clicked.  The test case
\* buttons read and write test_cases, test_case_seq and ss_test_cases only,
\* so the prompts table and the rest of the session state take the same
\* values with and without them.
NextPrompts ==
    \/ \E id \in SelectablePrompts(prompts) : Upvote(id)
    \/ \E id \in SelectablePrompts(prompts) : Edit(id)
    \/ \E id \in SelectablePrompts(prompts) : Delete(id)
    \/ \E id \in SelectablePrompts(prompts) : ConfirmDelete(id)
    \/ \E id \in SelectablePrompts(prompts) : CancelDelete(id)
    \/ \E template \in Templates, name \in Names, author \in Authors,
          values \in AllValueMaps :
          /\ values \in ValueMaps(template)
          /\ SavePrompt(name, author, template, values, <<>>)

SpecPrompts == Init /\ [][NextPrompts]_vars

\* versions saved in a session of the create page
MaxSaves == 2

\* The sessions of the create page: a version is opened with Edit, test
\* cases are added, Save Prompt is clicked with any template and values;
\* at most MaxSaves versions are saved.
NextSave ==
    \/ \E id \in SelectablePrompts(prompts) : Edit(id)
    \/ \E template \in Templates, values \in AllValueMaps :
          /\ values \in ValueMaps(template)
          /\ AddTestCase(template, values)
    \/ \E template \in Templates, name \in Names, author \in Authors,
          values \in AllValueMaps,
          widgets \in [DOMAIN LoadTestCases(test_cases, editing_prompt, ss_test_cases)
                         -> WidgetTexts] :
          /\ IF TemplateSyntaxOK(template) THEN values \in ValueMaps(template)
             ELSE values = <<>>
          /\ SavePromptValidated(name, author, template, values, widgets)
          /\ prompt_seq' <= MaxSaves

SpecSave == Init /\ [][NextSave]_vars

----------------------------------------------------------------------------
(* Calls of validate_variables_with_template (src/utils.py) on any         *)
(* template and any value mapping.                                         *)

\* templates are built from at most MaxPieces of these pieces
MaxPieces == 3

Pieces == {<<"hello">>,
           <<"{{", "x", "}}">>,
           <<"{{", "y", "}}">>,
           <<"{{", "x", ".", "y", "}}">>,
           <<"{{", "'s'", "}}">>,
           <<"{{", "x">>,
           <<"{%", "for", "x", "in", "y", "%}">>,
           <<"{%", "endfor", "%}">>}

RECURSIVE TemplateInputs(_)
TemplateInputs(n) ==
    IF n = 0 THEN {<<>>}
    ELSE LET shorter == TemplateInputs(n - 1)
         IN  shorter \cup {t \o piece : t \in shorter, piece \in Pieces}

\* the value mappings: any of the keys x and y, each with an empty, a None
\* or another value
ValueInputs == UNION {[keys -> {"", NoneValue, "v"}] : keys \in SUBSET {"x", "y"}}

InitValidator ==
    /\ InitStore
    /\ validator \in {[pc |-> "called", values |-> values, template_str |-> template_str,
                       template_vars |-> {}, ret |-> {}] :
                        values \in ValueInputs,
                        template_str \in TemplateInputs(MaxPieces)}
    /\ dispatcher = Idle
    /\ judge = Idle
    /\ design = Idle

\* template_vars = get_template_variables(template_str), which raises the
\* parser's TemplateSyntaxError to the caller
GetTemplateVariables ==
    /\ validator.pc = "called"
    /\ validator' =
         IF TemplateSyntaxOK(validator.template_str)
         THEN [validator EXCEPT
                 !.pc = "loop",
                 !.template_vars = get_template_variables(validator.template_str)]
         ELSE [validator EXCEPT !.pc = "raised", !.ret = "TemplateSyntaxError"]
    /\ UNCHANGED <<store_vars, dispatcher, judge, design>>

\* the loop over template_vars and the return
ValidateVariables ==
    /\ validator.pc = "loop"
    /\ \E ret \in validate_variables_with_template(validator.values,
                                                   validator.template_str) :
          validator' = [validator EXCEPT !.pc = "returned", !.ret = ret]
    /\ UNCHANGED <<store_vars, dispatcher, judge, design>>

NextValidator ==
    \/ GetTemplateVariables
    \/ ValidateVariables

SpecValidator == InitValidator /\ [][NextValidator]_vars

----------------------------------------------------------------------------
(* src/utils.py: test_prompt_with_model and test_multiple_models.  A text  *)
(* is held as the sequence of its characters.                               *)

\* a Python value the endpoint functions pass on: a str with its text, or a
\* value of another type (the float or None a JSON number or null decodes to)
Str(text) == [type |-> "str", text |-> text]
NonStr(type) == [type |-> type, text |-> <<>>]

\* what one session.post(...) followed by response.text() can end in: an
\* exception of the transport, or the text of the body.  A body is held as
\* what json.loads makes of it: no JSON, a JSON value that is no object, or
\* an object with its fields.
TransportError(exception, message) ==
    [kind |-> "exception", exception |-> exception, message |-> message, fields |-> <<>>]
Body(kind, fields) ==
    [kind |-> kind, exception |-> "", message |-> <<>>, fields |-> fields]

\* the classes the except clause of test_prompt_with_model catches
Exception ==
    {"ClientError", "TimeoutError", "JSONDecodeError", "KeyError", "TypeError"}

\* the try block: session.post, response.text(), json.loads(result) and
\* response["response"]; the value returned or the exception raised
post_and_decode(outcome) ==
    IF outcome.kind = "exception"
    THEN [raised |-> outcome.exception, message |-> outcome.message, value |-> NonStr("NoneType")]
    ELSE IF outcome.kind = "not_json"
    THEN [raised |-> "JSONDecodeError", message |-> <<"Expecting value">>,
          value |-> NonStr("NoneType")]
    ELSE IF outcome.kind = "json_array"
    THEN [raised |-> "TypeError", message |-> <<"list indices must be integers">>,
          value |-> NonStr("NoneType")]
    ELSE IF "response" \notin DOMAIN outcome.fields
    THEN [raised |-> "KeyError", message |-> <<"'response'">>, value |-> NonStr("NoneType")]
    ELSE [raised |-> "", message |-> <<>>, value |-> outcome.fields["response"]]

ErrorPrefix == <<"E", "r", "r", "o", "r", ":", " ">>

\* test_prompt_with_model with an except clause for the transport's
\* exceptions only (except aiohttp.ClientError)
test_prompt_with_model_client_errors(outcome) ==
    LET try == post_and_decode(outcome)
    IN  IF try.raised = "" THEN [raised |-> "", value |-> try.value]
        ELSE IF try.raised \in {"ClientError"}
        THEN [raised |-> "", value |-> Str(ErrorPrefix \o try.message)]
        ELSE [raised |-> try.raised, value |-> NonStr("NoneType")]

\* test_prompt_with_model: what the coroutine returns, or the exception it
\* raises to its caller when the except clause does not catch it
test_prompt_with_model(outcome) ==
    LET try == post_and_decode(outcome)
    IN  IF try.raised = "" THEN [raised |-> "", value |-> try.value]
        ELSE IF try.raised \in Exception
        THEN [raised |-> "", value |-> Str(ErrorPrefix \o try.message)]
        ELSE [raised |-> try.raised, value |-> NonStr("NoneType")]

\* endpoints a call of test_multiple_models may be given
MaxEndpoints == 2

Models == {"m1", "m2"}

\* the outcomes of the HTTP call of one task of test_multiple_models:
\* str(e) of a timeout is empty
DispatchOutcomes ==
    {TransportError("ClientError", <<"Cannot connect to host">>),
     TransportError("TimeoutError", <<>>),
     Body("not_json", <<>>),
     Body("json_array", <<>>),
     Body("json_object", [error |-> Str(<<"model not found">>)]),
     Body("json_object", [response |-> Str(<<"o", "k">>)]),
     Body("json_object", [response |-> NonStr("float")])}

\* dict(zip(models, results)): a later entry overwrites an earlier one of
\* the same key
dict_zip(models, results) ==
    [m \in {models[k] : k \in DOMAIN models} |->
        results[Max({k \in DOMAIN models : models[k] = m})]]

\* a gather that hands the results over in the order of completion
gather_as_completed(tasks) ==
    [k \in DOMAIN tasks |->
        tasks[CHOOSE i \in DOMAIN tasks : tasks[i].completed = k].result]

\* asyncio.gather(*tasks): the results in the order of the tasks
gather(tasks) == [k \in DOMAIN tasks |-> tasks[k].result]

Pending == [done |-> FALSE, completed |-> 0, outcome |-> Body("not_json", <<>>),
            raised |-> "", result |-> NonStr("NoneType")]

InitDispatcher ==
    /\ InitStore
    /\ validator = Idle
    /\ dispatcher \in {[pc |-> "gather", models |-> models,
                        tasks |-> [k \in DOMAIN models |-> Pending],
                        ret |-> <<>>] :
                         models \in UNION {[1..n -> Models] : n \in 1..MaxEndpoints}}
    /\ judge = Idle
    /\ design = Idle

\* the task of endpoint k ends: its HTTP call has one of the outcomes.  An
\* exception the coroutine does not catch would be raised by gather.
TaskCompletes(k, outcome) ==
    /\ dispatcher.pc = "gather"
    /\ k \in DOMAIN dispatcher.tasks
    /\ ~dispatcher.tasks[k].done
    /\ LET call == test_prompt_with_model(outcome)
           nth == Cardinality({i \in DOMAIN dispatcher.tasks :
                                    dispatcher.tasks[i].done}) + 1
       IN  dispatcher' =
             [dispatcher EXCEPT
                !.tasks[k] = [done |-> TRUE, completed |-> nth, outcome |-> outcome,
                              raised |-> call.raised, result |-> call.value],
                !.pc = IF call.raised = "" THEN "gather" ELSE "raised"]
    /\ UNCHANGED <<store_vars, validator, judge, design>>

\* every task is done: gather returns and the dict is built
GatherReturns ==
    /\ dispatcher.pc = "gather"
    /\ \A k \in DOMAIN dispatcher.tasks : dispatcher.tasks[k].done
    /\ dispatcher' =
         [dispatcher EXCEPT
            !.pc = "returned",
            !.ret = dict_zip(dispatcher.models, gather(dispatcher.tasks))]
    /\ UNCHANGED <<store_vars, validator, judge, design>>

NextDispatcher ==
    \/ \E k \in 1..MaxEndpoints, outcome \in DispatchOutcomes : TaskCompletes(k, outcome)
    \/ GatherReturns

SpecDispatcher == InitDispatcher /\ [][NextDispatcher]_vars

----------------------------------------------------------------------------
(* src/utils.py: compare_strings_with_llm_judge.  A float is held as the   *)
(* fraction num / den with den a power of ten, or as NaN.                   *)

Float(num, den) == [nan |-> FALSE, num |-> num, den |-> den]
NaN == [nan |-> TRUE, num |-> 0, den |-> 1]
Zero == Float(0, 1)
One == Float(1, 1)

\* a < b and a = b of two floats: every comparison with NaN is false
Less(a, b) == ~a.nan /\ ~b.nan /\ a.num * b.den < b.num * a.den
Same(a, b) == ~a.nan /\ ~b.nan /\ a.num * b.den = b.num * a.den

\* Python's min(a, b) and max(a, b): the first argument unless the second
\* is smaller (larger)
py_min(a, b) == IF Less(b, a) THEN b ELSE a
py_max(a, b) == IF Less(a, b) THEN b ELSE a

Whitespace == {" ", "\n"}
Digits == {"0", "1", "5"}

\* str.strip()
RECURSIVE lstrip(_)
lstrip(text) ==
    IF text # <<>> /\ Head(text) \in Whitespace THEN lstrip(Tail(text)) ELSE text
RECURSIVE rstrip(_)
rstrip(text) ==
    IF text # <<>> /\ text[Len(text)] \in Whitespace
    THEN rstrip(SubSeq(text, 1, Len(text) - 1)) ELSE text
strip(text) == rstrip(lstrip(text))

\* str.replace('\n', '')
replace_newline(text) == SelectSeq(text, LAMBDA c : c # "\n")

DigitValue(c) == IF c = "0" THEN 0 ELSE IF c = "1" THEN 1 ELSE 5

\* the number a sequence of digits reads as
RECURSIVE DigitsValue(_)
DigitsValue(digits) ==
    IF digits = <<>> THEN 0
    ELSE 10 * DigitsValue(SubSeq(digits, 1, Len(digits) - 1))
            + DigitValue(digits[Len(digits)])

RECURSIVE PowerOfTen(_)
PowerOfTen(n) == IF n = 0 THEN 1 ELSE 10 * PowerOfTen(n - 1)

\* float(text) for texts of digits, ".", a sign, blanks and letters: an
\* optional sign, then "nan" or digits with at most one "." and at least
\* one digit; blanks at the ends are skipped.  Everything else is a
\* ValueError (ok is FALSE).
python_float(text) ==
    LET stripped == strip(text)
        signed == stripped # <<>> /\ Head(stripped) \in {"-", "+"}
        sign == IF signed /\ Head(stripped) = "-" THEN -1 ELSE 1
        body == IF signed THEN Tail(stripped) ELSE stripped
        dots == {k \in DOMAIN body : body[k] = "."}
        digits == SelectSeq(body, LAMBDA c : c \in Digits)
    IN  IF body = <<"n", "a", "n">> THEN [ok |-> TRUE, value |-> NaN]
        ELSE IF /\ \A k \in DOMAIN body : body[k] \in Digits \cup {"."}
                /\ Cardinality(dots) <= 1
                /\ digits # <<>>
        THEN [ok |-> TRUE,
              value |-> Float(sign * DigitsValue(digits),
                              IF dots = {} THEN 1
                              ELSE PowerOfTen(Len(body) - (CHOOSE k \in dots : TRUE)))]
        ELSE [ok |-> FALSE, value |-> Zero]

\* the function body after the await, without the line that clamps
compare_strings_unclamped(score_response) ==
    IF score_response.type # "str"
    THEN [raised |-> "AttributeError", ret |-> Zero]
    ELSE LET score == python_float(replace_newline(strip(score_response.text)))
         IN  IF ~score.ok THEN [raised |-> "", ret |-> Zero]
             ELSE [raised |-> "", ret |-> score.value]

\* the function body after the await: score_response.strip() raises
\* AttributeError on a value that is no str, which except ValueError does
\* not catch; a ValueError of float() gives 0.0
compare_strings_with_llm_judge(score_response) ==
    IF score_response.type # "str"
    THEN [raised |-> "AttributeError", ret |-> Zero]
    ELSE LET score == python_float(replace_newline(strip(score_response.text)))
         IN  IF ~score.ok THEN [raised |-> "", ret |-> Zero]
             ELSE [raised |-> "", ret |-> py_max(Zero, py_min(One, score.value))]

\* characters of a judge reply
MaxReplyLen == 3

ReplyChars == {"0", "1", "5", ".", "-", " ", "\n", "n", "a"}

ReplyTexts == UNION {[1..n -> ReplyChars] : n \in 0..MaxReplyLen}

\* the outcomes of the HTTP call to the judge model
JudgeOutcomes ==
    {TransportError("ClientError", <<"Cannot connect to host">>),
     TransportError("TimeoutError", <<>>),
     Body("not_json", <<>>),
     Body("json_object", [error |-> Str(<<"model not found">>)]),
     Body("json_object", [response |-> NonStr("float")]),
     Body("json_object", [response |-> NonStr("NoneType")])}
        \cup {Body("json_object", [response |-> Str(text)]) : text \in ReplyTexts}

InitJudge ==
    /\ InitStore
    /\ validator = Idle
    /\ dispatcher = Idle
    /\ judge = [pc |-> "called", score_response |-> NonStr("NoneType"),
                raised |-> "", ret |-> Zero]
    /\ design = Idle

\* score_response = await test_prompt_func(url, judge_prompt, model), the
\* function being test_prompt_with_model
AwaitJudgeReply(outcome) ==
    /\ judge.pc = "called"
    /\ LET call == test_prompt_with_model(outcome)
       IN  judge' = IF call.raised = ""
                    THEN [judge EXCEPT !.pc = "replied", !.score_response = call.value]
                    ELSE [judge EXCEPT !.pc = "raised", !.raised = call.raised]
    /\ UNCHANGED <<store_vars, validator, dispatcher, design>>

\* float(...), the clamp and the return, or the exception
ScoreReply ==
    /\ judge.pc = "replied"
    /\ LET result == compare_strings_with_llm_judge(judge.score_response)
       IN  judge' = IF result.raised = ""
                    THEN [judge EXCEPT !.pc = "returned", !.ret = result.ret]
                    ELSE [judge EXCEPT !.pc = "raised", !.raised = result.raised]
    /\ UNCHANGED <<store_vars, validator, dispatcher, design>>

NextJudge ==
    \/ \E outcome \in JudgeOutcomes : AwaitJudgeReply(outcome)
    \/ ScoreReply

SpecJudge == InitJudge /\ [][NextJudge]_vars

----------------------------------------------------------------------------
(* src/pages/design_prompt_page.py: show_design_prompt_page, the script    *)
(* run of a click on "Generate Prompt".  One thread runs the loop, so one   *)
(* iteration is one step.                                                   *)

MAX_ITERATIONS == 10

\* The text of a test case's input_json: the JSON of an object of strings
\* (held as the mapping json.dumps would write), the JSON of a value that is
\* no object, or a text that is not JSON.
JsonObject(mapping) == [kind |-> "object", value |-> mapping]
JsonArray == [kind |-> "array"]
NotJson == [kind |-> "invalid"]

\* json.loads(text): the value read, or JSONDecodeError
json_loads(text) ==
    IF text.kind = "invalid" THEN [raised |-> "JSONDecodeError", kind |-> "", value |-> <<>>]
    ELSE IF text.kind = "object" THEN [raised |-> "", kind |-> "dict", value |-> text.value]
    ELSE [raised |-> "", kind |-> "list", value |-> <<>>]

\* Evaluating a node of a template under the variables given to render:
\* "raise" for UndefinedError, else whether the value is defined.  A name
\* that is no variable is Undefined; an attribute the value does not have
\* is Undefined; an attribute of Undefined raises; Undefined prints as ''
\* and iterates as empty.
RECURSIVE evaluate(_, _)
evaluate(node, variables) ==
    LET children(vs) == {evaluate(node.children[k], vs) : k \in DOMAIN node.children}
    IN  IF node.type = "Name"
        THEN IF node.name \in variables THEN "defined" ELSE "undefined"
        ELSE IF node.type = "Getattr"
        THEN IF evaluate(node.children[1], variables) = "defined"
             THEN "undefined" ELSE "raise"
        ELSE IF node.type = "For"
        THEN LET iter == evaluate(node.children[2], variables)
                 body == {evaluate(node.children[k], variables \cup {node.children[1].name}) :
                              k \in DOMAIN node.children \ {1, 2}}
             IN  IF iter = "raise" THEN "raise"
                 ELSE IF iter = "defined" /\ "raise" \in body THEN "raise"
                 ELSE "defined"
        ELSE IF "raise" \in children(variables) THEN "raise" ELSE "defined"

\* Template(source).render(**test_input): "" when it returns, else the
\* exception raised
render(source, test_input) ==
    LET ast == parse(source)
    IN  IF ~ast.ok THEN "TemplateSyntaxError"
        ELSE IF test_input.kind # "dict" THEN "TypeError"
        ELSE IF \E tree \in {ast.node} :
                    evaluate(tree, DOMAIN test_input.value) = "raise"
             THEN "UndefinedError"
        ELSE ""

\* st.session_state.test_cases as loaded from the uploaded file
DesignTestCases ==
    <<[input_json |-> JsonObject([number |-> "9"]), expected_output |-> <<"I", "X">>],
      [input_json |-> JsonObject([number |-> "58"]),
       expected_output |-> <<"L", "V", "I", "I", "I">>]>>

\* What the endpoints may answer in one iteration: the template the design
\* endpoint answers with, and for each test case the HTTP outcome of the
\* call to the test endpoint and of the judge's call.  The template parses
\* or does not; the judge replies "1", "0.5" or with a null response.
WellFormedCandidate == <<"{{", "number", "}}">>
MalformedCandidate == <<"{{", "number">>
TestReply == Body("json_object", [response |-> Str(<<"I", "X">>)])
JudgedOne == Body("json_object", [response |-> Str(<<"1">>)])
JudgedHalf == Body("json_object", [response |-> Str(<<"0", ".", "5">>)])
JudgedNull == Body("json_object", [response |-> NonStr("NoneType")])

Replies(content, judge_outcomes) ==
    [content |-> content,
     test_outcomes |-> [k \in DOMAIN judge_outcomes |-> TestReply],
     judge_outcomes |-> judge_outcomes]

\* every test case judged 1.0; one judged 0.5; the judge's call raising for
\* one; the template raising for all
IterationReplies ==
    {Replies(WellFormedCandidate, <<JudgedOne, JudgedOne>>),
     Replies(WellFormedCandidate, <<JudgedHalf, JudgedOne>>),
     Replies(WellFormedCandidate, <<JudgedOne, JudgedNull>>),
     Replies(MalformedCandidate, <<JudgedOne, JudgedOne>>)}

\* the replies of the runs checked for termination
FairIterationReplies ==
    {Replies(WellFormedCandidate, <<JudgedOne, JudgedOne>>),
     Replies(WellFormedCandidate, <<JudgedHalf, JudgedOne>>),
     Replies(MalformedCandidate, <<JudgedOne, JudgedOne>>)}

\* the chat variant of the endpoint client: the assistant's reply message,
\* whose content is the candidate template; it does not raise
test_prompt_with_chat_model(content) == [role |-> "assistant", content |-> content]

\* _create_initial_chat_history: a system and a user message
create_initial_chat_history ==
    <<[role |-> "system", content |-> <<"prompt engineer">>],
      [role |-> "user", content |-> <<"task and test cases">>]>>

\* a feedback message sent in the assistant's role
create_feedback_message_as_assistant(test_results) ==
    [role |-> "assistant", content |-> test_results]

\* _create_feedback_message: a user message made from the test results
create_feedback_message(test_results) == [role |-> "user", content |-> test_results]

\* a loop that runs one iteration more than the bound
loop_continues_inclusive(iteration) == iteration <= MAX_ITERATIONS

\* for iteration in range(MAX_ITERATIONS): another iteration follows
loop_continues(iteration) == iteration < MAX_ITERATIONS

\* a test that takes a score of one half for a perfect one
below_half(score) == Less(score, Float(1, 2))

\* if score < 1.0
below_one(score) == Less(score, One)

\* the body of the try block for one test case: json.loads, Template(...),
\* render, the call to the test endpoint and the judge may raise; the
\* except clause catches every Exception
run_test_case(content, test_case, test_outcome, judge_outcome) ==
    LET test_input == json_loads(test_case.input_json)
    IN  IF test_input.raised # "" \/ render(content, test_input) # ""
        THEN [raised |-> TRUE, score |-> Zero, actual |-> NonStr("NoneType")]
        ELSE LET llm_output == test_prompt_with_model(test_outcome)
                 reply == test_prompt_with_model(judge_outcome)
                 judged == compare_strings_with_llm_judge(reply.value)
             IN  IF llm_output.raised # "" \/ reply.raised # "" \/ judged.raised # ""
                 THEN [raised |-> TRUE, score |-> Zero, actual |-> llm_output.value]
                 ELSE [raised |-> FALSE, score |-> judged.ret, actual |-> llm_output.value]

\* a loop over the test cases in which a test case that raised leaves
\* all_perfect as it was
RECURSIVE run_test_cases_ignoring_failures(_, _, _, _, _, _)
run_test_cases_ignoring_failures(content, tcs, test_outcomes, judge_outcomes, k, acc) ==
    IF k > Len(tcs) THEN acc
    ELSE CHOOSE after \in
           {run_test_cases_ignoring_failures(content, tcs, test_outcomes, judge_outcomes, k + 1, next) :
              next \in
                {IF run.raised
                 THEN [scores |-> Append(acc.scores, Zero),
                       test_results |-> acc.test_results,
                       all_perfect |-> acc.all_perfect]
                 ELSE [scores |-> Append(acc.scores, run.score),
                       test_results |-> Append(acc.test_results,
                             [input |-> tcs[k].input_json,
                              expected |-> tcs[k].expected_output,
                              actual |-> run.actual,
                              score |-> run.score]),
                       all_perfect |-> acc.all_perfect /\ ~below_one(run.score)] :
                  run \in {run_test_case(content, tcs[k], test_outcomes[k],
                                         judge_outcomes[k])}}} : TRUE

\* the for loop over the test cases from test case k on: scores,
\* test_results and all_perfect as they are after it
RECURSIVE run_test_cases(_, _, _, _, _, _)
run_test_cases(content, tcs, test_outcomes, judge_outcomes, k, acc) ==
    IF k > Len(tcs) THEN acc
    ELSE CHOOSE after \in
           {run_test_cases(content, tcs, test_outcomes, judge_outcomes, k + 1, next) :
              next \in
                {IF run.raised
                 THEN [scores |-> Append(acc.scores, Zero),
                       test_results |-> acc.test_results,
                       all_perfect |-> FALSE]
                 ELSE [scores |-> Append(acc.scores, run.score),
                       test_results |-> Append(acc.test_results,
                             [input |-> tcs[k].input_json,
                              expected |-> tcs[k].expected_output,
                              actual |-> run.actual,
                              score |-> run.score]),
                       all_perfect |-> acc.all_perfect /\ ~below_one(run.score)] :
                  run \in {run_test_case(content, tcs[k], test_outcomes[k],
                                         judge_outcomes[k])}}} : TRUE

InitDesign ==
    /\ InitStore
    /\ validator = Idle
    /\ dispatcher = Idle
    /\ judge = Idle
    /\ design = [pc |-> "loop", iteration |-> 0,
                 test_cases |-> DesignTestCases,
                 intermediate_prompts |-> <<>>,
                 current_test_results |-> <<>>,
                 chat_history |-> create_initial_chat_history,
                 all_perfect |-> FALSE,
                 log |-> <<>>]

\* one iteration of the loop.  log is history: the candidate and the list
\* scores of every iteration executed.
Iterate(content, test_outcomes, judge_outcomes) ==
    /\ design.pc = "loop"
    /\ loop_continues(design.iteration)
    /\ \E prompt_response_message \in {test_prompt_with_chat_model(content)} :
       \E run \in {run_test_cases(prompt_response_message.content, design.test_cases,
                                  test_outcomes, judge_outcomes, 1,
                                  [scores |-> <<>>, test_results |-> <<>>,
                                   all_perfect |-> TRUE])} :
       \E replied \in {Append(design.chat_history, prompt_response_message)} :
         design' =
             [design EXCEPT
                !.iteration = @ + 1,
                !.intermediate_prompts = Append(@, prompt_response_message.content),
                !.current_test_results = Append(@, run.test_results),
                !.all_perfect = run.all_perfect,
                !.chat_history =
                    IF run.all_perfect THEN replied
                    ELSE Append(replied, create_feedback_message(run.test_results)),
                !.log = Append(@, [content |-> prompt_response_message.content,
                                   scores |-> run.scores]),
                !.pc = IF run.all_perfect \/ ~loop_continues(design.iteration + 1)
                       THEN "display" ELSE "loop"]
    /\ UNCHANGED <<store_vars, validator, dispatcher, judge>>

\* "Display results": the average score of an iteration divides by the
\* number of its test results, a ZeroDivisionError when it has none
Display ==
    /\ design.pc = "display"
    /\ design' =
         [design EXCEPT
            !.pc = IF design.intermediate_prompts = <<>> THEN "done"
                   ELSE IF \E k \in DOMAIN design.current_test_results :
                                design.current_test_results[k] = <<>>
                   THEN "crashed" ELSE "reset"]
    /\ UNCHANGED <<store_vars, validator, dispatcher, judge>>

\* "Reset State"
ResetState ==
    /\ design.pc = "reset"
    /\ design' = [design EXCEPT
                    !.pc = "done",
                    !.test_cases = <<>>,
                    !.intermediate_prompts = <<>>,
                    !.current_test_results = <<>>,
                    !.chat_history = <<>>]
    /\ UNCHANGED <<store_vars, validator, dispatcher, judge>>

DesignStep(replies) ==
    \/ \E r \in replies : Iterate(r.content, r.test_outcomes, r.judge_outcomes)
    \/ Display
    \/ ResetState

NextDesign == DesignStep(IterationReplies)

SpecDesign == InitDesign /\ [][NextDesign]_vars

\* The script run is one thread, and every HTTP call it awaits ends (with
\* a reply or with the client's timeout), so a step that can be taken is
\* taken.
NextDesignFair == DesignStep(FairIterationReplies)

SpecDesignFair == InitDesign /\ [][NextDesignFair]_vars /\ WF_vars(NextDesignFair)

\* Runs over test cases whose processing may fail: an input that is not
\* JSON, one that is no JSON object, one that lacks the variable whose
\* attribute the candidate reads.  The candidates are one that reads an
\* attribute and one that does not parse; the judge replies "1".
AttributeCandidate == <<"{{", "number", ".", "n", "}}">>

FailingTestCaseLists ==
    {DesignTestCases,
     <<[input_json |-> NotJson, expected_output |-> <<"I", "X">>], DesignTestCases[2]>>,
     <<DesignTestCases[1], [input_json |-> JsonArray, expected_output |-> <<"I", "X">>]>>,
     <<DesignTestCases[1], [input_json |-> JsonObject(<<>>), expected_output |-> <<"I", "X">>]>>}

FailingIterationReplies ==
    {Replies(AttributeCandidate, <<JudgedOne, JudgedOne>>),
     Replies(MalformedCandidate, <<JudgedOne, JudgedOne>>)}

InitDesignFailing ==
    /\ InitStore
    /\ validator = Idle
    /\ dispatcher = Idle
    /\ judge = Idle
    /\ \E tcs \in FailingTestCaseLists :
         design = [pc |-> "loop", iteration |-> 0,
                   test_cases |-> tcs,
                   intermediate_prompts |-> <<>>,
                   current_test_results |-> <<>>,
                   chat_history |-> create_initial_chat_history,
                   all_perfect |-> FALSE,
                   log |-> <<>>]

NextDesignFailing == DesignStep(FailingIterationReplies)

SpecDesignFailing == InitDesignFailing /\ [][NextDesignFailing]_vars

----------------------------------------------------------------------------
(* src/pages/test_page.py and src/pages/create_page.py: "Test Prompt".  A  *)
(* configured endpoint is held as its position in config.endpoints; its    *)
(* model identifier is available_endpoints[position].                      *)

\* the list of the elements of a set of numbers in increasing order
RECURSIVE Ascending(_)
Ascending(S) ==
    IF S = {} THEN <<>>
    ELSE LET least == CHOOSE x \in S : \A y \in S : x <= y
         IN  <<least>> \o Ascending(S \ {least})

\* results.values() of results = dict(zip(models, ...)): the values in the
\* order in which their keys were first inserted
dict_values(models, results) ==
    LET keys == Ascending({k \in DOMAIN models :
                              \A i \in 1..(k - 1) : models[i] # models[k]})
    IN  [n \in DOMAIN keys |-> results[models[keys[n]]]]

\* zip(selected_endpoints, results.values()): as long as the shorter list
zip_endpoints(endpoints, values) ==
    [k \in 1..(IF Len(endpoints) <= Len(values) THEN Len(endpoints) ELSE Len(values)) |->
        [endpoint |-> endpoints[k], response |-> values[k]]]

\* the configurations of config.yaml and the selections of the multiselect:
\* selected_endpoints keeps the order of config.endpoints
Configurations == UNION {[1..n -> Models] : n \in 1..MaxEndpoints}

Selections(available_endpoints) ==
    {Ascending(S) : S \in SUBSET (DOMAIN available_endpoints) \ {{}}}

\* what the judge endpoint may answer for one response
TestPageJudgeOutcomes == {JudgedOne, JudgedHalf, JudgedNull}

\* the loop over zip(selected_endpoints, test_results.values()) from pair k
\* on: the judge scores appended so far, and the exception that ended it
RECURSIVE judge_responses(_, _, _, _)
judge_responses(pairs, judge_outcomes, k, scores) ==
    IF k > Len(pairs) THEN [raised |-> "", scores |-> scores]
    ELSE LET reply == test_prompt_with_model(judge_outcomes[k])
             judged == compare_strings_with_llm_judge(reply.value)
         IN  IF judged.raised # ""
             THEN [raised |-> judged.raised, scores |-> scores]
             ELSE judge_responses(pairs, judge_outcomes, k + 1,
                     Append(scores, [endpoint |-> pairs[k].endpoint,
                                     response |-> pairs[k].response,
                                     score |-> judged.ret]))

\* "Test Prompt" has been clicked with a selection that is not empty, the
\* template has been rendered for a test case and test_multiple_models is
\* called with the urls and models of the selected endpoints
InitTestPage ==
    /\ InitStore
    /\ validator = Idle
    /\ judge = Idle
    /\ design = Idle
    /\ \E available_endpoints \in Configurations :
         \E selected_endpoints \in Selections(available_endpoints) :
            LET models == [k \in DOMAIN selected_endpoints |->
                              available_endpoints[selected_endpoints[k]]]
            IN  dispatcher = [pc |-> "gather", models |-> models,
                              tasks |-> [k \in DOMAIN models |-> Pending],
                              ret |-> <<>>,
                              available_endpoints |-> available_endpoints,
                              selected_endpoints |-> selected_endpoints,
                              shown |-> <<>>, scores |-> <<>>, raised |-> ""]

\* the loop over zip(selected_endpoints, results.values()): for each pair
\* the response is written under the endpoint's name and, for the results
\* of a test case, judged by available_endpoints[1], the second configured
\* endpoint (IndexError when there is one only).  An exception ends the
\* handler in its except clause.
JudgeTestResults(judge_outcomes) ==
    /\ dispatcher.pc = "returned"
    /\ LET pairs == zip_endpoints(dispatcher.selected_endpoints,
                                  dict_values(dispatcher.models, dispatcher.ret))
       IN  /\ DOMAIN judge_outcomes = DOMAIN pairs
           /\ IF Len(dispatcher.available_endpoints) < 2
              THEN dispatcher' = [dispatcher EXCEPT !.pc = "error",
                                                    !.shown = pairs,
                                                    !.raised = "IndexError"]
              ELSE LET judged == judge_responses(pairs, judge_outcomes, 1, <<>>)
                   IN  dispatcher' =
                         [dispatcher EXCEPT
                            !.pc = IF judged.raised = "" THEN "judged" ELSE "error",
                            !.shown = pairs,
                            !.scores = judged.scores,
                            !.raised = judged.raised]
    /\ UNCHANGED <<store_vars, validator, judge, design>>

NextTestPage ==
    \/ \E k \in 1..MaxEndpoints, outcome \in DispatchOutcomes : TaskCompletes(k, outcome)
    \/ GatherReturns
    \/ \E judge_outcomes \in
            UNION {[1..n -> TestPageJudgeOutcomes] : n \in 1..MaxEndpoints} :
          JudgeTestResults(judge_outcomes)

SpecTestPage == InitTestPage /\ [][NextTestPage]_vars

----------------------------------------------------------------------------
(* Properties of the prompt version store *)

\* the rows of table P that belong to the family with root id r; a family
\* is the root row and every row inserted by editing a row of the family
FamilyRows(P, r) == {i \in DOMAIN P : created[i].root = r}

\* the families that have a row in table P
Families(P) == {created[i].root : i \in DOMAIN P}

\* this step is a Save Prompt in edit mode that inserted a row
NewVersionInserted == editing_prompt # None /\ prompt_seq' = prompt_seq + 1

\* C1: a row inserted by editing a version of a family gets the version
\* max(versions of the rows now in the family) + 1, whichever version of the
\* family was the base.
C1_NewVersionIsFamilyMaxPlusOne ==
    [][NewVersionInserted =>
        LET family == FamilyRows(prompts, created[editing_prompt.id].root)
        IN  family # {} =>
                prompts'[prompt_seq'].version =
                    Max({prompts[i].version : i \in family}) + 1]_vars

\* C2: within one family the version numbers strictly increase in creation
\* order, over all rows that are or ever were in the family: no version
\* number is given twice, none is given again after a delete.
C2_VersionsStrictlyIncreasing ==
    \A i, j \in DOMAIN created :
        (i < j /\ created[i].root = created[j].root) =>
            created[i].version < created[j].version

\* C3: every row inserted as a new version has as parent_id the id of the
\* root of its family, also when the base was a non-root version.
C3_ParentIsFamilyRoot ==
    \A i \in DOMAIN prompts :
        prompts[i].parent_id # NULL => prompts[i].parent_id = created[i].root

\* C4: saving an edit with name, author, template and example values all
\* unchanged from the base version inserts nothing: a row inserted by a save
\* in edit mode differs from the base version in one of these fields.
C4_UnchangedEditIsNoOp ==
    [][NewVersionInserted =>
        ~ /\ prompts'[prompt_seq'].name = editing_prompt.name
          /\ prompts'[prompt_seq'].author = editing_prompt.author
          /\ prompts'[prompt_seq'].template = editing_prompt.template
          /\ prompts'[prompt_seq'].example_values = editing_prompt.example_values]_vars

\* C5: a save in edit mode that writes the prompts table adds exactly one
\* row, with a fresh id, and leaves every field of every row that was there
\* unchanged.
C5_EditAddsOneRowAndMutatesNone ==
    [][(editing_prompt # None /\ editing_prompt' = None
            /\ (prompts' # prompts \/ prompt_seq' # prompt_seq)) =>
        /\ prompt_seq' = prompt_seq + 1
        /\ prompt_seq' \notin DOMAIN prompts
        /\ DOMAIN prompts' = DOMAIN prompts \cup {prompt_seq'}
        /\ \A i \in DOMAIN prompts : prompts'[i] = prompts[i]]_vars

\* C5 witness: a version was inserted with a template that differs from the
\* template its base row still holds
C5_Witness ==
    \E i \in DOMAIN prompts :
        /\ prompts[i].parent_id \in DOMAIN prompts
        /\ prompts[i].template # prompts[prompts[i].parent_id].template
        /\ prompts[prompts[i].parent_id].version = 1

\* the parent chain of row i consists of rows of the table and ends at a
\* row without parent (a parent id is smaller than the id of its child)
RECURSIVE ChainEndsAtRoot(_, _)
ChainEndsAtRoot(P, i) ==
    \/ P[i].parent_id = NULL
    \/ /\ P[i].parent_id \in DOMAIN P
       /\ P[i].parent_id < i
       /\ ChainEndsAtRoot(P, P[i].parent_id)

\* C6: in every reachable state the parent chain of every row consists of
\* existing rows and ends at a row whose parent_id is null.
C6_ParentChainsEndAtRoot ==
    \A i \in DOMAIN prompts : ChainEndsAtRoot(prompts, i)

\* C7: in every reachable state every list get_latest_versions may return
\* holds exactly one row of each family, and that row carries the largest
\* version number present in the family.
C7_LatestIsOnePerFamilyWithMaxVersion ==
    \A latest \in get_latest_versions(prompts) :
        \A r \in Families(prompts) :
            LET of_family == {k \in DOMAIN latest : created[latest[k].id].root = r}
            IN  /\ Cardinality(of_family) = 1
                /\ \A k \in of_family :
                      latest[k].version =
                          Max({prompts[i].version : i \in FamilyRows(prompts, r)})

\* C8: for the id of any row, every list get_prompt_versions may return
\* holds the rows of that row's family, all of them and no others, by
\* version descending.
C8_VersionsListIsWholeFamily ==
    \A id \in DOMAIN prompts :
        \A versions \in get_prompt_versions(prompts, id) :
            /\ {versions[k].id : k \in DOMAIN versions} =
                    FamilyRows(prompts, created[id].root)
            /\ \A k \in 1..(Len(versions) - 1) :
                    versions[k].version >= versions[k + 1].version

----------------------------------------------------------------------------
(* Properties of the test case store *)

\* C9: a step that deletes the prompt row id leaves no test case row with
\* prompt_id = id in the test_cases table.
C9_DeleteRemovesTestCases ==
    [][\A id \in (DOMAIN prompts) \ (DOMAIN prompts') :
          \A t \in DOMAIN test_cases' : test_cases'[t].prompt_id # id]_vars

\* C10: in every reachable state the prompt_id of every stored test case is
\* the id of a family's root row (a row inserted with parent_id null), never
\* the id of a non-root version.
C10_TestCasesReferToRoot ==
    \A t \in DOMAIN test_cases :
        /\ test_cases[t].prompt_id \in DOMAIN created
        /\ created[test_cases[t].prompt_id].root = test_cases[t].prompt_id

----------------------------------------------------------------------------
(* Properties of upvote_prompt *)

\* C11: a step that changes the upvotes of a row (the Upvote button calling
\* upvote_prompt) increases the upvotes of exactly one row by 1 and leaves
\* every other field of that row and every field of every other row, the
\* other versions of its family included, unchanged.
C11_UpvoteChangesOneRow ==
    [][(\E i \in DOMAIN prompts \cap DOMAIN prompts' :
            prompts'[i].upvotes # prompts[i].upvotes) =>
        /\ DOMAIN prompts' = DOMAIN prompts
        /\ \E id \in DOMAIN prompts :
              /\ prompts'[id] = [prompts[id] EXCEPT !.upvotes = @ + 1]
              /\ \A j \in DOMAIN prompts \ {id} : prompts'[j] = prompts[j]]_vars

\* C11 witness: a row was upvoted while another version of its family,
\* made from it, keeps its count
C11_Witness ==
    \E i, j \in DOMAIN prompts :
        /\ prompts[j].parent_id = i
        /\ prompts[i].upvotes = 1
        /\ prompts[j].upvotes = 0

----------------------------------------------------------------------------
(* Properties of the template functions of src/utils.py *)

\* the value mapping V has a non-empty, non-null value for the name
HasValue(V, name) == name \in DOMAIN V /\ V[name] # "" /\ V[name] # NoneValue

\* C12: for every template that parses and every value mapping,
\* validate_variables_with_template returns success exactly if every name
\* get_template_variables extracted is a key of the mapping with a
\* non-empty, non-null value; on failure the name returned is an extracted
\* name without such a value, on success it is the empty string.
C12_ValidateIffAllVariablesHaveValues ==
    validator.pc = "returned" =>
        LET V == validator.values
            extracted == validator.template_vars
            ret == validator.ret
        IN  /\ ret.is_valid <=> \A name \in extracted : HasValue(V, name)
            /\ ~ret.is_valid => ret.missing \in extracted /\ ~HasValue(V, ret.missing)
            /\ ret.is_valid => ret.missing = ""

\* C12 witness: for a template with the variables x and y and a mapping
\* with a text for x and the empty text for y, (False, "y") was returned
C12_Witness ==
    /\ validator.pc = "returned"
    /\ validator.template_vars = {"x", "y"}
    /\ DOMAIN validator.values = {"x", "y"}
    /\ validator.values["x"] = "v"
    /\ validator.values["y"] = ""
    /\ validator.ret = [is_valid |-> FALSE, missing |-> "y"]

\* the names the tree under node refers to and does not bind itself: the
\* names in load context outside the body of a for loop with that target
RECURSIVE FreeVariables(_, _)
FreeVariables(node, bound) ==
    IF node.type = "Name"
    THEN IF node.ctx = "load" /\ node.name \notin bound THEN {node.name} ELSE {}
    ELSE IF node.type = "For"
    THEN FreeVariables(node.children[2], bound)
            \cup UNION {FreeVariables(node.children[k], bound \cup {node.children[1].name}) :
                            k \in 3..Len(node.children)}
    ELSE UNION {FreeVariables(node.children[k], bound) : k \in DOMAIN node.children}

\* C13: get_template_variables returns the free variable names of the
\* template: the names referenced as bare variables, without attribute
\* names and literals, and without a name the template binds itself such as
\* the target of a for loop.
C13_ExtractsFreeVariables ==
    validator.pc \in {"loop", "returned"} =>
        validator.template_vars =
            FreeVariables(parse(validator.template_str).node, {})

----------------------------------------------------------------------------
(* Properties of the endpoint functions of src/utils.py *)

\* the text begins with "Error: "
IsErrorString(value) ==
    /\ value.type = "str"
    /\ Len(value.text) >= Len(ErrorPrefix)
    /\ SubSeq(value.text, 1, Len(ErrorPrefix)) = ErrorPrefix

\* the HTTP call gave a JSON object with a response field
WellFormedReply(outcome) ==
    outcome.kind = "json_object" /\ "response" \in DOMAIN outcome.fields

\* C14: test_prompt_with_model never raises to its caller: on a transport
\* error, a timeout, a body that is no JSON and a JSON body without a
\* response field it returns a string that begins with "Error: ", on a
\* well-formed reply it returns the response field.
C14_ClientReturnsErrorStringOrResponse ==
    \A k \in DOMAIN dispatcher.tasks :
        dispatcher.tasks[k].done =>
            LET task == dispatcher.tasks[k]
            IN  /\ task.raised = ""
                /\ IF WellFormedReply(task.outcome)
                   THEN task.result = task.outcome.fields["response"]
                   ELSE IsErrorString(task.result)

\* C14 witness: a call whose body was a JSON object without a response
\* field has returned "Error: 'response'"
C14_Witness ==
    \E k \in DOMAIN dispatcher.tasks :
        /\ dispatcher.tasks[k].done
        /\ dispatcher.tasks[k].outcome.kind = "json_object"
        /\ "response" \notin DOMAIN dispatcher.tasks[k].outcome.fields
        /\ dispatcher.tasks[k].result = Str(ErrorPrefix \o <<"'response'">>)

\* C15: for pairwise distinct model identifiers test_multiple_models never
\* raises, returns only when every task is done and then, whatever the
\* order of completion and whichever calls failed, returns a mapping with
\* exactly one entry per endpoint, each model identifier mapped to the
\* result of its own endpoint's call: the "Error: " string of a failed
\* call, the response of a call that got one.
C15_DispatcherMapsEachModelToItsResult ==
    /\ dispatcher.pc # "raised"
    /\ dispatcher.pc = "returned" =>
        LET models == dispatcher.models
            tasks == dispatcher.tasks
        IN  /\ \A k \in DOMAIN tasks : tasks[k].done
            /\ (\A i, j \in DOMAIN models : i # j => models[i] # models[j]) =>
                 /\ DOMAIN dispatcher.ret = {models[k] : k \in DOMAIN models}
                 /\ Cardinality(DOMAIN dispatcher.ret) = Len(models)
                 /\ \A k \in DOMAIN models :
                       /\ dispatcher.ret[models[k]] = tasks[k].result
                       /\ IF WellFormedReply(tasks[k].outcome)
                          THEN dispatcher.ret[models[k]] =
                                  tasks[k].outcome.fields["response"]
                          ELSE IsErrorString(dispatcher.ret[models[k]])

\* C15 witness: two endpoints, the second done before the first; the first
\* timed out, the second got a response; the mapping returned has the
\* error string for the first model and the response for the second
C15_Witness ==
    /\ dispatcher.pc = "returned"
    /\ dispatcher.models = <<"m1", "m2">>
    /\ dispatcher.tasks[2].completed = 1
    /\ dispatcher.tasks[1].outcome = TransportError("TimeoutError", <<>>)
    /\ dispatcher.ret["m1"] = Str(ErrorPrefix)
    /\ dispatcher.ret["m2"] = Str(<<"o", "k">>)

----------------------------------------------------------------------------
(* Properties of compare_strings_with_llm_judge *)

\* the judge reply is a text that float() reads as a number
NumericReply(score_response) ==
    /\ score_response.type = "str"
    /\ python_float(replace_newline(strip(score_response.text))).ok
    /\ ~python_float(replace_newline(strip(score_response.text))).value.nan

\* C16: the score returned is within [0.0, 1.0] whatever the judge's
\* reply: a numeric reply above 1 gives 1.0, one below 0 gives 0.0, one
\* inside the range is returned unchanged.
C16_ScoreIsClamped ==
    judge.pc = "returned" =>
        /\ ~judge.ret.nan
        /\ ~Less(judge.ret, Zero)
        /\ ~Less(One, judge.ret)
        /\ NumericReply(judge.score_response) =>
             LET raw == python_float(
                            replace_newline(strip(judge.score_response.text))).value
             IN  /\ Less(One, raw) => Same(judge.ret, One)
                 /\ Less(raw, Zero) => Same(judge.ret, Zero)
                 /\ (~Less(One, raw) /\ ~Less(raw, Zero)) => Same(judge.ret, raw)

\* C16 witness: the judge replied "1.5" and 1.0 was returned
C16_Witness ==
    /\ judge.pc = "returned"
    /\ judge.score_response = Str(<<"1", ".", "5">>)
    /\ judge.ret = One

\* float() can read the reply: it is a text and no ValueError is raised
python_float_reads(score_response) ==
    /\ score_response.type = "str"
    /\ python_float(replace_newline(strip(score_response.text))).ok

\* C17: a judge failure is never fatal: when the reply the endpoint
\* function returned is no number (a non-numeric text, an "Error: ..."
\* string, a response field that is no text), the call returns 0.0 and
\* raises nothing.
C17_JudgeFailureReturnsZero ==
    (judge.pc \in {"returned", "raised"}
        /\ ~python_float_reads(judge.score_response)) =>
            /\ judge.pc = "returned"
            /\ Same(judge.ret, Zero)

\* the design loop has ended; every test case of an executed iteration
\* scored exactly 1.0; the number of design calls made so far
LoopEnded == design.pc # "loop"
Perfect(entry) ==
    /\ Len(entry.scores) = Len(DesignTestCases)
    /\ \A j \in DOMAIN entry.scores : Same(entry.scores[j], One)
DesignCalls == Len(design.log)

\* C18: the design loop stops at the first iteration k in which every test
\* case scored exactly 1.0 and at no earlier one: no design call follows an
\* all-perfect iteration, the loop ends before the bound only on an
\* all-perfect iteration, and when it stops the history holds exactly as
\* many entries as iterations were executed
C18_StopsAtFirstPerfectIteration ==
    /\ \A k \in DOMAIN design.log :
          Perfect(design.log[k]) => (k = DesignCalls /\ LoopEnded)
    /\ (LoopEnded /\ DesignCalls < MAX_ITERATIONS) =>
          (DesignCalls > 0 /\ Perfect(design.log[DesignCalls]))
    /\ design.pc = "display" =>
          /\ Len(design.intermediate_prompts) = DesignCalls
          /\ Len(design.current_test_results) = DesignCalls

\* the loop stopped at iteration 3 of 10, the first all-perfect one, with
\* 3 entries in the history
C18_Witness ==
    /\ design.pc = "display"
    /\ DesignCalls = 3
    /\ Perfect(design.log[3])
    /\ ~Perfect(design.log[1])
    /\ ~Perfect(design.log[2])
    /\ Len(design.intermediate_prompts) = 3

\* the loop ended without an all-perfect iteration
Exhausted ==
    /\ LoopEnded
    /\ DesignCalls = MAX_ITERATIONS
    /\ \A k \in DOMAIN design.log : ~Perfect(design.log[k])

\* C19: the design loop always terminates: it makes at most MAX_ITERATIONS
\* design calls, it ends, and when it has ended without an all-perfect
\* iteration it has executed exactly MAX_ITERATIONS iterations
C19_LoopTerminatesWithinBound ==
    /\ [](DesignCalls <= MAX_ITERATIONS)
    /\ []((LoopEnded /\ \A k \in DOMAIN design.log : ~Perfect(design.log[k]))
             => Exhausted)
    /\ <>LoopEnded

\* ten iterations were executed, none of them all-perfect, and the loop
\* has ended
C19_Witness ==
    /\ design.pc = "display"
    /\ Exhausted
    /\ design.iteration = MAX_ITERATIONS

\* C20: once the design loop has reached Converged or Exhausted, the
\* retained history holds, for every executed iteration, its candidate
\* template and a score for every test case, also after the display
C20_HistoryRetainedWithAllScores ==
    LoopEnded =>
       /\ Len(design.intermediate_prompts) = DesignCalls
       /\ Len(design.current_test_results) = DesignCalls
       /\ \A k \in DOMAIN design.log :
             /\ design.intermediate_prompts[k] = design.log[k].content
             /\ Len(design.current_test_results[k]) = Len(DesignTestCases)

\* processing test case tc under the candidate content fails: json.loads
\* or Template(...).render raises
ProcessingFails(content, tc) ==
    LET test_input == json_loads(tc.input_json)
    IN  test_input.raised # "" \/ render(content, test_input) # ""

\* C21: in an iteration of the design loop a test case whose processing
\* fails is counted as score 0.0, the other test cases of the iteration are
\* processed all the same, and the iteration does not end the loop as
\* converged
C21_FailedTestCaseScoresZeroAndBlocksConvergence ==
    design.test_cases # <<>> =>
      \A k \in DOMAIN design.log :
        LET entry == design.log[k]
            failed == {j \in DOMAIN design.test_cases :
                          ProcessingFails(entry.content, design.test_cases[j])}
        IN  /\ Len(entry.scores) = Len(design.test_cases)
            /\ \A j \in failed : Same(entry.scores[j], Zero)
            /\ (failed # {} /\ k = DesignCalls) =>
                  /\ ~design.all_perfect
                  /\ LoopEnded => DesignCalls = MAX_ITERATIONS

\* the first test case of the first iteration failed, the second one was
\* processed and scored 1.0, and the loop goes on
C21_Witness ==
    /\ design.pc = "loop"
    /\ DesignCalls = 1
    /\ ProcessingFails(design.log[1].content, design.test_cases[1])
    /\ ~ProcessingFails(design.log[1].content, design.test_cases[2])
    /\ Same(design.log[1].scores[1], Zero)
    /\ Same(design.log[1].scores[2], One)

\* iteration k did not converge: it is not an all-perfect last iteration
NonConverging(k) == k < DesignCalls \/ ~design.all_perfect

\* the feedback message appended after iteration k: the message after the
\* system and user messages and k assistant replies each followed by it
FeedbackOf(k) == design.chat_history[2 * k + 2]

\* C22: after every iteration that does not converge exactly one feedback
\* message is appended to the conversation, and it holds one entry (input,
\* expected, actual, score) for every test case of the run, the test cases
\* that failed in the iteration included
C22_FeedbackHasEntryForEveryTestCase ==
    design.chat_history # <<>> =>
      /\ Len(design.chat_history) =
            2 + 2 * DesignCalls - (IF DesignCalls > 0 /\ design.all_perfect THEN 1 ELSE 0)
      /\ \A k \in DOMAIN design.log :
            NonConverging(k) =>
               /\ FeedbackOf(k).role = "user"
               /\ Len(FeedbackOf(k).content) = Len(design.test_cases)

\* the role the message at position k of a conversation has when it is
\* [system, user] followed by assistant replies alternating with user
\* feedback messages
AlternatingRole(k) ==
    IF k = 1 THEN "system" ELSE IF k % 2 = 0 THEN "user" ELSE "assistant"

Last(seq) == seq[Len(seq)]

\* C27: during a run of the design loop the conversation is [system, user]
\* followed by strictly alternating assistant replies and user feedback
\* messages; every design call is made with a conversation that ends with
\* a user message; an iteration appends exactly one assistant reply, whose
\* content is recorded as its candidate template, and a feedback message
\* after it only when it did not converge
C27_ConversationAlternates ==
    /\ [](design.pc \in {"loop", "display"} =>
            /\ Len(design.chat_history) >= 2
            /\ \A k \in DOMAIN design.chat_history :
                  design.chat_history[k].role = AlternatingRole(k))
    /\ [][design'.iteration = design.iteration + 1 =>
            LET reply == design'.chat_history[Len(design.chat_history) + 1]
            IN  /\ Last(design.chat_history).role = "user"
                /\ Len(design'.chat_history) =
                      Len(design.chat_history) + (IF design'.all_perfect THEN 1 ELSE 2)
                /\ SubSeq(design'.chat_history, 1, Len(design.chat_history))
                      = design.chat_history
                /\ reply.role = "assistant"
                /\ reply.content = Last(design'.intermediate_prompts)
                /\ Len(design'.intermediate_prompts) = Len(design.intermediate_prompts) + 1
                /\ design'.all_perfect => Last(design'.chat_history) = reply]_vars

\* the loop converged at its second iteration: the conversation is system,
\* user, assistant, user, assistant
C27_Witness ==
    /\ design.pc = "display"
    /\ DesignCalls = 2
    /\ design.all_perfect
    /\ Len(design.chat_history) = 5
    /\ design.chat_history[4].role = "user"
    /\ design.chat_history[5].role = "assistant"
    /\ design.chat_history[5].content = design.intermediate_prompts[2]

\* C25: on the browse page delete_prompt(id) runs only in a step in which
\* delete_confirmation already is that id, left there by a Delete click on
\* that version; one id at most is pending, a row of the table; and after
\* Confirm or Cancel delete_confirmation is None
C25_DeleteOnlyAfterConfirmation ==
    /\ [](delete_confirmation = NULL \/ delete_confirmation \in DOMAIN created)
    /\ [][DOMAIN prompts' # DOMAIN prompts /\ DOMAIN prompts' \subseteq DOMAIN prompts =>
            /\ delete_confirmation # NULL
            /\ DOMAIN prompts' = DOMAIN prompts \ {delete_confirmation}
            /\ delete_confirmation' = NULL]_vars
    /\ [][delete_confirmation' # delete_confirmation =>
            \/ /\ delete_confirmation' = NULL
               /\ DOMAIN prompts \ {delete_confirmation} \subseteq DOMAIN prompts'
            \/ /\ delete_confirmation' \in SelectablePrompts(prompts)
               /\ prompts' = prompts]_vars

\* a version was deleted after its confirmation and nothing is pending
C25_Witness ==
    /\ delete_confirmation = NULL
    /\ \E id \in DOMAIN created : id \notin DOMAIN prompts

\* C29: a new version row starts with the upvote count its base version
\* has in the table at the moment the new version is inserted, so that
\* upvotes given to the base between Edit and Save Prompt are carried over
C29_NewVersionStartsWithCurrentUpvotes ==
    [][prompt_seq' = prompt_seq + 1 =>
          LET new == prompts'[prompt_seq']
          IN  (new.parent_id # NULL /\ new.parent_id \in DOMAIN prompts) =>
                 new.upvotes = prompts[new.parent_id].upvotes]_vars

\* C26: in the Test Prompt flows every selected endpoint is shown, and on
\* the test page judged, with the response its own call produced, for every
\* selection of configured endpoints, those in which two endpoints have the
\* same model identifier included
C26_EndpointShownWithItsOwnResponse ==
    dispatcher.pc \in {"judged", "error"} =>
       /\ Len(dispatcher.shown) = Len(dispatcher.selected_endpoints)
       /\ \A k \in DOMAIN dispatcher.shown :
             /\ dispatcher.shown[k].endpoint = dispatcher.selected_endpoints[k]
             /\ dispatcher.shown[k].response = dispatcher.tasks[k].result

\* C28: with an endpoint configured and selected and a test case of the
\* family, Test Prompt on the test page gives a judge score for every pair
\* of the test case and a selected endpoint, also when one endpoint only is
\* configured
C28_EveryPairIsJudged ==
    dispatcher.pc \in {"judged", "error"} =>
       /\ dispatcher.pc = "judged"
       /\ Len(dispatcher.scores) = Len(dispatcher.selected_endpoints)
       /\ \A k \in DOMAIN dispatcher.scores :
             dispatcher.scores[k].endpoint = dispatcher.selected_endpoints[k]

\* the stored test cases saved with a version of the family of row i
FamilyTestCases(i) ==
    {t \in DOMAIN test_cases :
        /\ test_cases[t].prompt_id \in DOMAIN created
        /\ created[test_cases[t].prompt_id].root = created[i].root}

\* C23: test cases belong to the whole family: for every version of a
\* family, at any depth, the lookup the test page and the edit page make
\* for that version returns every stored test case that was saved while
\* creating or editing a version of the family
C23_LookupReturnsFamilyTestCases ==
    \A i \in DOMAIN prompts :
        LET found == lookup_test_cases(test_cases, prompts[i])
        IN  \A t \in FamilyTestCases(i) :
                \E k \in DOMAIN found : found[k].id = t

\* the call of validate_variables_with_template made by Save Prompt ended
\* the save: the template did not parse, or a variable had no value
SaveRejected(frame) ==
    \/ frame.pc = "raised"
    \/ frame.pc = "returned" /\ ~frame.ret.is_valid

\* C24: a Save Prompt whose template is malformed, or whose values leave a
\* variable of the template without a value, is rejected before anything is
\* persisted: no row of either table is inserted or updated, the error
\* names a variable that has no value, and the editing state is not
\* cleared; so no stored prompt has such a template or such values
C24_InvalidSaveIsRejectedBeforePersisting ==
    /\ [](validator.pc \in {"raised", "returned"} =>
            /\ validator.pc = "raised" <=> ~TemplateSyntaxOK(validator.template_str)
            /\ validator.pc = "returned" =>
                 /\ validator.ret.is_valid <=>
                       \A name \in get_template_variables(validator.template_str) :
                           HasValue(validator.values, name)
                 /\ ~validator.ret.is_valid =>
                       /\ validator.ret.missing
                             \in get_template_variables(validator.template_str)
                       /\ ~HasValue(validator.values, validator.ret.missing))
    /\ [](\A i \in DOMAIN prompts :
            /\ TemplateSyntaxOK(prompts[i].template)
            /\ \A name \in get_template_variables(prompts[i].template) :
                  HasValue(prompts[i].example_values, name))
    /\ [][(validator' # validator /\ SaveRejected(validator')) =>
            /\ prompts' = prompts
            /\ prompt_seq' = prompt_seq
            /\ test_cases' = test_cases
            /\ test_case_seq' = test_case_seq
            /\ editing_prompt' = editing_prompt
            /\ ss_test_cases # <<>> => ss_test_cases' = ss_test_cases]_vars

\* a version with a test case is being edited and a Save Prompt with the
\* variable x left empty has been rejected naming x: the tables are as
\* they were and the editing state is still there
C24_Witness ==
    /\ validator.pc = "returned"
    /\ ~validator.ret.is_valid
    /\ validator.ret.missing = "x"
    /\ editing_prompt # None
    /\ ss_test_cases # <<>>
    /\ Cardinality(DOMAIN prompts) = 1
    /\ Cardinality(DOMAIN test_cases) = 1

====
